---- MODULE Spec2Model ----
(***************************************************************************)
(* Model of the BEI stock screener: the Supabase store (tables stocks and  *)
(* market_status of supabase/schema.sql with their realtime change feed)   *)
(* and the client reconciliation hook useStocks (frontend/src/hooks),      *)
(* mounted by App.                                                         *)
(***************************************************************************)
EXTENDS Integers, Sequences, FiniteSets, TLC

(***************************************************************************)
(* Bounds of the model.                                                    *)
(***************************************************************************)
\* Store writes (by the scraper or any other writer) in one behaviour.
MaxWrites == 2

\* Listed instruments, in lexical order of their symbol.
SymbolOrder == <<"ANTM", "BBCA", "TLKM">>

Symbols == {SymbolOrder[i] : i \in 1..Len(SymbolOrder)}

\* Position of a symbol in lexical order (the order of ORDER BY symbol ASC).
symbolRank(s) == CHOOSE i \in 1..Len(SymbolOrder) : SymbolOrder[i] = s

\* JavaScript null, for state that holds a record or null.
null == [null |-> TRUE]

\* JavaScript null, for state that holds a string or null.
nullString == "null"

(***************************************************************************)
(* Rows of table stocks: the columns the hook reads (types/stock.ts).      *)
(* change_percent is in hundredths of a percent.  The value profiles are   *)
(* rows the screening rules can produce: score 100 goes with passed_screen *)
(* and accumulation goes with net_foreign > 0 and change_percent > 0.      *)
(***************************************************************************)
PassedNeutral ==
  [score |-> 100, passed_screen |-> TRUE, acc_dist_status |-> "neutral",
   net_foreign |-> 0, change_percent |-> 204]

PassedAccumulation ==
  [score |-> 100, passed_screen |-> TRUE, acc_dist_status |-> "accumulation",
   net_foreign |-> 5, change_percent |-> 204]

FailedAccumulation ==
  [score |-> 80, passed_screen |-> FALSE, acc_dist_status |-> "accumulation",
   net_foreign |-> 5, change_percent |-> 30]

Stock(sym, p) ==
  [symbol |-> sym, score |-> p.score, passed_screen |-> p.passed_screen,
   acc_dist_status |-> p.acc_dist_status, net_foreign |-> p.net_foreign,
   change_percent |-> p.change_percent]

StockRows ==
  {Stock(sym, p) : sym \in Symbols,
                   p \in {PassedNeutral, PassedAccumulation, FailedAccumulation}}

\* The rows written to table stocks after the client has mounted.
PublishedRows ==
  {Stock(sym, p) : sym \in Symbols, p \in {PassedNeutral, FailedAccumulation}}

\* Table stocks when the client mounts, as the scraper has filled it.
InitialTable ==
  {Stock("ANTM", PassedAccumulation), Stock("BBCA", FailedAccumulation)}

(***************************************************************************)
(* Rows of table market_status.                                            *)
(***************************************************************************)
DefaultStatus ==
  [id |-> 1, status |-> "closed", session |-> "unknown",
   message |-> "Initializing...", can_trade |-> FALSE, should_update |-> FALSE]

OpenStatus ==
  [id |-> 1, status |-> "open", session |-> "session_1",
   message |-> "Market open", can_trade |-> TRUE, should_update |-> TRUE]

\* Rows a writer may try to insert or update to; id 2 is refused by the table.
StatusRows == {DefaultStatus, OpenStatus, [OpenStatus EXCEPT !.id = 2]}

\* CONSTRAINT single_row CHECK (id = 1)
single_row(r) == r.id = 1

VARIABLES
  tblStocks,      \* store: table stocks, a set of rows keyed by symbol
  market_status,  \* store: table market_status, a set of rows keyed by id
  writes,         \* number of store writes so far
  conn,           \* realtime channels: "joining", "joined" or "errored"
  inbox,          \* change events received on the socket, not yet handled
  stocks,         \* useStocks state: Stock[]
  marketStatus,   \* useStocks state: MarketStatus | null
  loading,        \* useStocks state
  error,          \* useStocks state: string | null
  fetchPc,        \* position of the fetchStocks call in flight, or "idle"
  stocksData,     \* fetchStocks: rows returned by the stocks query
  statusData,     \* fetchStocks: row returned by the market_status query, or null
  expected,       \* history: the rows of the last fetch that setStocks applied,
                  \* with the events handled since put and removed by symbol
  log,            \* history: the events handled since that fetch, in delivery
                  \* order, each with the index its symbol had in stocks and
                  \* the error the hook held
  missed,         \* history: "no", or the state of conn in which a change of
                  \* table stocks was lost to the feed, with no fetch since
  now,            \* store: the database clock, the value of NOW()
  snapshot,       \* scraper: the snapshot of the cycle, or null
  publishedStocks,\* store: table stocks with its timestamps, as the scraper
                  \* fills it
  publishes       \* history: the snapshots published, in order

vars == <<tblStocks, market_status, writes, conn, inbox, stocks, marketStatus,
          loading, error, fetchPc, stocksData, statusData, expected, log, missed,
          now, snapshot, publishedStocks, publishes>>

storeVars == <<tblStocks, market_status, writes>>
hookVars == <<stocks, marketStatus, loading, error>>
fetchVars == <<fetchPc, stocksData, statusData>>
histVars == <<expected, log>>
clientVars == <<tblStocks, market_status, writes, conn, inbox, stocks,
                marketStatus, loading, error, fetchPc, stocksData, statusData,
                expected, log, missed>>
pubVars == <<now, snapshot, publishedStocks, publishes>>

(***************************************************************************)
(* Array helpers of the hook.                                              *)
(***************************************************************************)
\* Array.prototype.sort: a stable sort by the comparator cmp, a function of
\* two rows (a negative or zero cmp[a, b] keeps a before b).
ArraySort(s, cmp) ==
  LET Insert(sorted, x) ==
        LET k == Cardinality({i \in 1..Len(sorted) : cmp[sorted[i], x] <= 0})
        IN  SubSeq(sorted, 1, k) \o <<x>> \o SubSeq(sorted, k + 1, Len(sorted))
      f[i \in 0..Len(s)] == IF i = 0 THEN <<>> ELSE Insert(f[i - 1], s[i])
  IN  f[Len(s)]

\* Mutant of findIndex: the search starts at the second row.
findIndexFromSecond(prev, sym) ==
  IF \E i \in 2..Len(prev) : prev[i].symbol = sym
  THEN CHOOSE i \in 2..Len(prev) :
         /\ prev[i].symbol = sym
         /\ \A j \in 2..(i - 1) : prev[j].symbol # sym
  ELSE 0

\* prev.findIndex((s) => s.symbol === sym), 1-based; 0 stands for -1.
findIndex(prev, sym) ==
  IF \E i \in 1..Len(prev) : prev[i].symbol = sym
  THEN CHOOSE i \in 1..Len(prev) :
         /\ prev[i].symbol = sym
         /\ \A j \in 1..(i - 1) : prev[j].symbol # sym
  ELSE 0

\* (a, b) => b.score - a.score
byScoreDesc == [a \in StockRows, b \in StockRows |-> b.score - a.score]

getRecommendationScore(s) ==
  s.score
  + (IF s.acc_dist_status = "accumulation" THEN 50 ELSE 0)
  + (IF s.net_foreign > 0 THEN 30 ELSE 0)
  + (IF s.change_percent > 0 THEN 20 ELSE 0)

\* Mutant of sortByRecommendation: the bonuses are lost and the comparator
\* orders by score alone, like the one of the event handler.
sortByScoreOnly == [a \in StockRows, b \in StockRows |-> b.score - a.score]

sortByRecommendation ==
  [a \in StockRows, b \in StockRows |->
     getRecommendationScore(b) - getRecommendationScore(a)]

\* Mutant of upsertStock: the findIndex branch is lost and the row is always
\* appended.
upsertStockAppendOnly(prev, newStock) ==
  ArraySort(Append(prev, newStock), byScoreDesc)

\* The updater of setStocks on an INSERT or UPDATE event.
upsertStock(prev, newStock) ==
  LET index == findIndex(prev, newStock.symbol)
  IN  IF index >= 1
      THEN ArraySort([prev EXCEPT ![index] = newStock], byScoreDesc)
      ELSE ArraySort(Append(prev, newStock), byScoreDesc)

\* Mutant of removeStock: the rows from the symbol's position on are all
\* dropped, as by splice(index) without a delete count.
removeStockTruncating(prev, sym) ==
  IF findIndex(prev, sym) >= 1 THEN SubSeq(prev, 1, findIndex(prev, sym) - 1) ELSE prev

\* The updater of setStocks on a DELETE event.
removeStock(prev, sym) == SelectSeq(prev, LAMBDA s : s.symbol # sym)

\* What useStocks returns as stocks.
returnedStocks == ArraySort(stocks, sortByRecommendation)

\* Mutant of screenedStocks: the filter is lost.
screenedStocksUnfiltered == ArraySort(stocks, sortByRecommendation)

\* What useStocks returns as screenedStocks.
screenedStocks ==
  ArraySort(SelectSeq(stocks, LAMBDA s : s.passed_screen), sortByRecommendation)

(***************************************************************************)
(* Reads of the store.                                                     *)
(***************************************************************************)
\* The orders in which a set of rows can be listed.
Listings(rows) ==
  {p \in [1..Cardinality(rows) -> rows] :
     \A i, j \in 1..Cardinality(rows) : i # j => p[i] # p[j]}

\* select * from stocks order by score desc: rows of equal score come in any order.
SelectStocksByScore ==
  {p \in Listings(tblStocks) :
     \A i \in 1..(Len(p) - 1) : p[i].score >= p[i + 1].score}

\* View screened_stocks: passed_screen rows ORDER BY score DESC, symbol ASC.
screened_stocks ==
  LET rows == {r \in tblStocks : r.passed_screen}
  IN  CHOOSE p \in Listings(rows) :
        \A i \in 1..(Len(p) - 1) :
          \/ p[i].score > p[i + 1].score
          \/ /\ p[i].score = p[i + 1].score
             /\ symbolRank(p[i].symbol) < symbolRank(p[i + 1].symbol)

\* select * from market_status where id = 1, .single(): the row, or null with
\* error PGRST116 when there is none.
SelectStatus ==
  IF \E r \in market_status : r.id = 1
  THEN CHOOSE r \in market_status : r.id = 1
  ELSE null

(***************************************************************************)
(* The collection as a symbol-keyed mapping.                               *)
(***************************************************************************)
AsMap(s) ==
  [sym \in Symbols |-> IF findIndex(s, sym) >= 1 THEN s[findIndex(s, sym)] ELSE null]

TableAsMap(rows) ==
  [sym \in Symbols |->
     IF \E r \in rows : r.symbol = sym
     THEN CHOOSE r \in rows : r.symbol = sym
     ELSE null]

\* A change event of the realtime feed.
Event(tbl, type, new, old) ==
  [table |-> tbl, eventType |-> type, new |-> new, old |-> old]

\* An entry of the history log.
Handled(payload, sym) ==
  [eventType |-> payload.eventType, index |-> findIndex(stocks, sym),
   error |-> error]

\* The feed pushes a change to a joined client only; it replays nothing.
Pushed(ev) == IF conn = "joined" THEN Append(inbox, ev) ELSE inbox

TypeOK ==
  /\ tblStocks \subseteq StockRows
  /\ market_status \subseteq StatusRows
  /\ writes \in 0..MaxWrites
  /\ conn \in {"joining", "joined", "errored"}
  /\ stocks \in Seq(StockRows)
  /\ marketStatus \in StatusRows \cup {null}
  /\ loading \in BOOLEAN
  /\ error \in {nullString, "Failed to fetch data"}
  /\ fetchPc \in {"idle", "awaitStocks", "stocksFailed", "awaitStatus", "apply"}
  /\ missed \in {"no", "joining", "errored"}

(***************************************************************************)
(* Initial state: the schema has been applied (market_status holds its     *)
(* default row) and the scraper may have published rows; App has mounted   *)
(* useStocks, whose effects have called fetchStocks and subscribed.        *)
(***************************************************************************)
Init ==
  /\ tblStocks = InitialTable
  /\ market_status = {DefaultStatus}
  /\ writes = 0
  /\ conn = "joining"
  /\ inbox = <<>>
  /\ stocks = <<>>
  /\ marketStatus = null
  /\ loading = TRUE
  /\ error = nullString
  /\ fetchPc = "awaitStocks"
  /\ stocksData = <<>>
  /\ statusData = null
  /\ expected = AsMap(<<>>)
  /\ log = <<>>
  /\ missed = "no"
  /\ now = 0
  /\ snapshot = null
  /\ publishedStocks = {}
  /\ publishes = <<>>

(***************************************************************************)
(* Writes to the store, each within the schema's constraints and policies. *)
(***************************************************************************)
\* INSERT INTO stocks: symbol is the primary key.
InsertStock ==
  \E row \in PublishedRows :
    /\ writes < MaxWrites
    /\ \A r \in tblStocks : r.symbol # row.symbol
    /\ tblStocks' = tblStocks \cup {row}
    /\ writes' = writes + 1
    /\ inbox' = Pushed(Event("stocks", "INSERT", row, null))
    /\ missed' = IF conn # "joined" THEN conn ELSE missed
    /\ UNCHANGED <<pubVars, market_status, conn, hookVars, fetchVars, histVars>>

\* UPDATE stocks SET ... WHERE symbol = row.symbol
UpdateStock ==
  \E row \in PublishedRows :
    /\ writes < MaxWrites
    /\ \E r \in tblStocks : r.symbol = row.symbol
    /\ tblStocks' = {r \in tblStocks : r.symbol # row.symbol} \cup {row}
    /\ writes' = writes + 1
    /\ inbox' = Pushed(Event("stocks", "UPDATE", row, null))
    /\ missed' = IF conn # "joined" /\ tblStocks' # tblStocks THEN conn ELSE missed
    /\ UNCHANGED <<pubVars, market_status, conn, hookVars, fetchVars, histVars>>

\* DELETE FROM stocks WHERE symbol = sym
DeleteStock ==
  \E sym \in Symbols :
    /\ writes < MaxWrites
    /\ \E r \in tblStocks : r.symbol = sym
    /\ tblStocks' = {r \in tblStocks : r.symbol # sym}
    /\ writes' = writes + 1
    /\ inbox' = Pushed(Event("stocks", "DELETE", null, [symbol |-> sym]))
    /\ missed' = IF conn # "joined" THEN conn ELSE missed
    /\ UNCHANGED <<pubVars, market_status, conn, hookVars, fetchVars, histVars>>

\* INSERT INTO market_status: id is the primary key, and CHECK (id = 1).
InsertStatus ==
  \E row \in StatusRows :
    /\ writes < MaxWrites
    /\ single_row(row)
    /\ \A r \in market_status : r.id # row.id
    /\ market_status' = market_status \cup {row}
    /\ writes' = writes + 1
    /\ inbox' = Pushed(Event("market_status", "INSERT", row, null))
    /\ UNCHANGED <<pubVars, tblStocks, conn, hookVars, fetchVars, histVars, missed>>

\* UPDATE market_status SET ... WHERE id = 1
UpdateStatus ==
  \E row \in StatusRows :
    /\ writes < MaxWrites
    /\ single_row(row)
    /\ \E r \in market_status : r.id = 1
    /\ market_status' = {r \in market_status : r.id # 1} \cup {row}
    /\ writes' = writes + 1
    /\ inbox' = Pushed(Event("market_status", "UPDATE", row, null))
    /\ UNCHANGED <<pubVars, tblStocks, conn, hookVars, fetchVars, histVars, missed>>

\* DELETE FROM market_status WHERE id = 1: policy "Service can update
\* market_status" is FOR ALL USING (true).
DeleteStatus ==
  /\ writes < MaxWrites
  /\ \E r \in market_status : r.id = 1
  /\ market_status' = {r \in market_status : r.id # 1}
  /\ writes' = writes + 1
  /\ inbox' = Pushed(Event("market_status", "DELETE", null, [id |-> 1]))
  /\ UNCHANGED <<pubVars, tblStocks, conn, hookVars, fetchVars, histVars, missed>>

(***************************************************************************)
(* The realtime channels.                                                  *)
(***************************************************************************)
\* The subscribe() of the mount effect is acknowledged.
Joined ==
  /\ conn = "joining"
  /\ conn' = "joined"
  /\ UNCHANGED <<pubVars, storeVars, inbox, hookVars, fetchVars, histVars, missed>>

\* The socket drops: until the channels are joined again the feed pushes
\* nothing.  The events already received stay to be handled.
Disconnect ==
  /\ conn = "joined"
  /\ conn' = "errored"
  /\ UNCHANGED <<pubVars, storeVars, inbox, hookVars, fetchVars, histVars, missed>>

\* The client library rejoins the channels; the hook passes subscribe() no
\* callback and does nothing on a rejoin.
Rejoined ==
  /\ conn = "errored"
  /\ conn' = "joined"
  /\ UNCHANGED <<pubVars, storeVars, inbox, hookVars, fetchVars, histVars, missed>>

\* The stocksChannel handler on the next event.
StocksEvent ==
  /\ inbox # <<>>
  /\ Head(inbox).table = "stocks"
  /\ LET payload == Head(inbox)
     IN  IF payload.eventType \in {"INSERT", "UPDATE"}
         THEN /\ stocks' = upsertStock(stocks, payload.new)
              /\ expected' = [expected EXCEPT ![payload.new.symbol] = payload.new]
              /\ log' = Append(log, Handled(payload, payload.new.symbol))
         ELSE /\ stocks' = removeStock(stocks, payload.old.symbol)
              /\ expected' = [expected EXCEPT ![payload.old.symbol] = null]
              /\ log' = Append(log, Handled(payload, payload.old.symbol))
  /\ inbox' = Tail(inbox)
  /\ UNCHANGED <<pubVars, storeVars, conn, marketStatus, loading, error, fetchVars, missed>>

\* The statusChannel handler on the next event.
StatusEvent ==
  /\ inbox # <<>>
  /\ Head(inbox).table = "market_status"
  /\ marketStatus' = IF Head(inbox).eventType = "UPDATE"
                     THEN Head(inbox).new
                     ELSE marketStatus
  /\ inbox' = Tail(inbox)
  /\ UNCHANGED <<pubVars, storeVars, conn, stocks, loading, error, fetchVars, histVars, missed>>

(***************************************************************************)
(* fetchStocks, one action per await, and App's Refresh button.            *)
(***************************************************************************)
\* Mutant of Refresh: the button is not disabled while loading.
RefreshWhileLoading ==
  /\ loading' = TRUE
  /\ error' = nullString
  /\ fetchPc' = "awaitStocks"
  /\ UNCHANGED <<pubVars, storeVars, conn, inbox, stocks, marketStatus, stocksData,
                 statusData, histVars, missed>>

\* App: the Refresh button (disabled while loading) calls refresh.
Refresh ==
  /\ ~loading
  /\ loading' = TRUE
  /\ error' = nullString
  /\ fetchPc' = "awaitStocks"
  /\ UNCHANGED <<pubVars, storeVars, conn, inbox, stocks, marketStatus, stocksData,
                 statusData, histVars, missed>>

\* The store answers the stocks query, or the query fails.
StocksQuery ==
  /\ fetchPc = "awaitStocks"
  /\ \/ \E data \in SelectStocksByScore :
          /\ stocksData' = data
          /\ fetchPc' = "awaitStatus"
          /\ missed' = "no"
     \/ /\ fetchPc' = "stocksFailed"
        /\ UNCHANGED <<stocksData, missed>>
  /\ UNCHANGED <<pubVars, storeVars, conn, inbox, hookVars, statusData, histVars>>

\* Mutant of FetchFailed: the catch block also empties the collection.
FetchFailedClearing ==
  /\ fetchPc = "stocksFailed"
  /\ error' = "Failed to fetch data"
  /\ loading' = FALSE
  /\ fetchPc' = "idle"
  /\ stocks' = <<>>
  /\ UNCHANGED <<pubVars, storeVars, conn, inbox, marketStatus, stocksData,
                 statusData, histVars, missed>>

\* if (stocksError) throw stocksError; catch: setError; finally: setLoading(false).
FetchFailed ==
  /\ fetchPc = "stocksFailed"
  /\ error' = "Failed to fetch data"
  /\ loading' = FALSE
  /\ fetchPc' = "idle"
  /\ UNCHANGED <<pubVars, storeVars, conn, inbox, stocks, marketStatus, stocksData,
                 statusData, histVars, missed>>

\* The stocks rows arrive; the store answers the market_status query, with
\* the row, with no row (PGRST116) or with another error (data is null).
StatusQuery ==
  /\ fetchPc = "awaitStatus"
  /\ \E failed \in BOOLEAN :
       statusData' = IF failed THEN null ELSE SelectStatus
  /\ fetchPc' = "apply"
  /\ UNCHANGED <<pubVars, storeVars, conn, inbox, hookVars, stocksData, histVars, missed>>

\* setStocks(stocksData || []); setMarketStatus(statusData || null);
\* finally: setLoading(false).
FetchApply ==
  /\ fetchPc = "apply"
  /\ stocks' = stocksData
  /\ marketStatus' = statusData
  /\ loading' = FALSE
  /\ fetchPc' = "idle"
  /\ stocksData' = <<>>
  /\ statusData' = null
  /\ expected' = AsMap(stocksData)
  /\ log' = <<>>
  /\ UNCHANGED <<pubVars, storeVars, conn, inbox, error, missed>>

Next ==
  \/ InsertStock
  \/ UpdateStock
  \/ DeleteStock
  \/ InsertStatus
  \/ UpdateStatus
  \/ DeleteStatus
  \/ Joined
  \/ Disconnect
  \/ Rejoined
  \/ StocksEvent
  \/ StatusEvent
  \/ Refresh
  \/ StocksQuery
  \/ FetchFailed
  \/ StatusQuery
  \/ FetchApply

Spec == Init /\ [][Next]_vars

\* The event loop runs every handler and continuation that is ready, and the
\* client library keeps rejoining; store writes, disconnects and the user's
\* Refresh are under no obligation to happen.
FairSpec ==
  /\ Spec
  /\ WF_vars(Joined)
  /\ WF_vars(Rejoined)
  /\ WF_vars(StocksEvent)
  /\ WF_vars(StatusEvent)
  /\ WF_vars(StocksQuery)
  /\ WF_vars(FetchFailed)
  /\ WF_vars(StatusQuery)
  /\ WF_vars(FetchApply)

(***************************************************************************)
(* The scraper's cycle: screening of a normalized snapshot, and publishing *)
(* of the screened snapshot to table stocks.  Prices are in rupiah,        *)
(* volumes in lots, percentages in hundredths of a percent.                *)
(***************************************************************************)
\* Publishes in one behaviour.
MaxPublishes == 3

\* Ticks of the database clock in one behaviour.
MaxClock == 2

\* The screening criteria, in the order of the README's table.
Criteria == <<"price", "volume", "volatility", "change_percent", "spread">>

\* Mutant of Weights: every criterion weighs the same.
WeightsEqual ==
  [price |-> 20, volume |-> 20, volatility |-> 20, change_percent |-> 20,
   spread |-> 20]

\* Column Bobot of the table.
Weights ==
  [price |-> 20, volume |-> 25, volatility |-> 20, change_percent |-> 15,
   spread |-> 20]

\* Column Nilai of the table.
MinPrice == 100
MaxPrice == 10000
MinVolume == 1000000
MinVolatility == 200
MinChangePercent == 50
MaxSpread == 200

\* Whether snapshot s meets criterion c, each criterion on its own.
passes(c, s) ==
  CASE c = "price" -> s.price >= MinPrice /\ s.price <= MaxPrice
    [] c = "volume" -> s.volume > MinVolume
    [] c = "volatility" -> s.volatility > MinVolatility
    [] c = "change_percent" -> s.change_percent > MinChangePercent
    [] c = "spread" -> s.spread < MaxSpread

\* The sum of the weights of the criteria s meets: a failed one adds 0.
calculateScore(s) ==
  LET sum[i \in 0..Len(Criteria)] ==
        IF i = 0 THEN 0
        ELSE sum[i - 1] + (IF passes(Criteria[i], s) THEN Weights[Criteria[i]] ELSE 0)
  IN  sum[Len(Criteria)]

\* The screened snapshot: score and passed_screen set from the criteria.
screen(s) ==
  [s EXCEPT !.score = calculateScore(s),
            !.passed_screen = \A i \in 1..Len(Criteria) : passes(Criteria[i], s)]

\* A normalized snapshot, before screening: score and passed_screen hold the
\* defaults of their columns.
Normalized(sym, price, volume, volatility, change_percent, spread) ==
  [symbol |-> sym, price |-> price, volume |-> volume, volatility |-> volatility,
   change_percent |-> change_percent, spread |-> spread,
   score |-> 0, passed_screen |-> FALSE, updated_at |-> now]

\* Values of the inputs, on and next to every threshold.
Prices == {0, 50, 99, 100, 500, 10000, 10001}
Volumes == {0, 1000000, 1000001, 2000000}
Volatilities == {0, 200, 201, 816}
ChangePercents == {-100, 0, 50, 51, 204}
Spreads == {0, 80, 199, 200}

\* The two example scenarios of a cycle: all five criteria pass, and the
\* price is outside its band.
ExampleSnapshots ==
  {Normalized(sym, price, 2000000, 816, 204, 80) :
     sym \in {"ANTM", "BBCA"}, price \in {500, 50}}

\* One cycle of the scraper for one symbol: normalize, compute, screen.
ScreenSnapshot ==
  /\ snapshot = null
  /\ \E sym \in Symbols, price \in Prices, volume \in Volumes,
        volatility \in Volatilities, change_percent \in ChangePercents,
        spread \in Spreads :
       snapshot' = screen(Normalized(sym, price, volume, volatility,
                                     change_percent, spread))
  /\ UNCHANGED <<clientVars, now, publishedStocks, publishes>>

\* The cycle ends; the next one starts from the feed again.
EndCycle ==
  /\ snapshot # null
  /\ snapshot' = null
  /\ UNCHANGED <<clientVars, now, publishedStocks, publishes>>

ScreenNext ==
  \/ ScreenSnapshot
  \/ EndCycle

ScreenSpec == Init /\ [][ScreenNext]_vars

\* The columns of a row the scraper computes: all but the timestamps.
Fields(r) ==
  [symbol |-> r.symbol, price |-> r.price, volume |-> r.volume,
   volatility |-> r.volatility, change_percent |-> r.change_percent,
   spread |-> r.spread, score |-> r.score, passed_screen |-> r.passed_screen]

\* symbol VARCHAR(10) PRIMARY KEY: the row an upsert of payload conflicts with.
conflicting(payload) == {r \in publishedStocks : r.symbol = payload.symbol}

\* The row an INSERT stores: updated_at and created_at DEFAULT NOW() when the
\* statement does not give them.
insertedRow(payload, sendsUpdatedAt) ==
  [symbol |-> payload.symbol, price |-> payload.price, volume |-> payload.volume,
   volatility |-> payload.volatility, change_percent |-> payload.change_percent,
   spread |-> payload.spread, score |-> payload.score,
   passed_screen |-> payload.passed_screen,
   updated_at |-> IF sendsUpdatedAt THEN payload.updated_at ELSE now,
   created_at |-> now]

\* Mutant of update_updated_at: the trigger is not installed and the row
\* keeps the updated_at the statement gave it.
update_updated_at_missing(new) == new

\* Trigger stocks_updated_at, BEFORE UPDATE: NEW.updated_at = NOW().
update_updated_at(new) == [new EXCEPT !.updated_at = now]

\* The row an UPDATE stores in place of old: the columns of the statement
\* replaced, the trigger run on the result.
updatedRow(old, payload, sendsUpdatedAt) ==
  update_updated_at(
    [insertedRow(payload, sendsUpdatedAt) EXCEPT
       !.updated_at = IF sendsUpdatedAt THEN payload.updated_at ELSE old.updated_at,
       !.created_at = old.created_at])

\* Upsert keyed by symbol: insert if new, otherwise replace.
upsert(payload, sendsUpdatedAt) ==
  IF conflicting(payload) = {}
  THEN publishedStocks \cup {insertedRow(payload, sendsUpdatedAt)}
  ELSE (publishedStocks \ conflicting(payload))
         \cup {updatedRow(old, payload, sendsUpdatedAt) : old \in conflicting(payload)}

\* The database clock advances.
Tick ==
  /\ now < MaxClock
  /\ now' = now + 1
  /\ UNCHANGED <<clientVars, snapshot, publishedStocks, publishes>>

\* A cycle computes and screens the snapshot of a symbol.
ComputeSnapshot ==
  /\ \E s \in ExampleSnapshots : snapshot' = screen(s)
  /\ UNCHANGED <<clientVars, now, publishedStocks, publishes>>

\* The scraper publishes the snapshot it holds, for the first time or again.
Publish ==
  /\ snapshot # null
  /\ Len(publishes) < MaxPublishes
  /\ \E sendsUpdatedAt \in BOOLEAN :
       publishedStocks' = upsert(snapshot, sendsUpdatedAt)
  /\ publishes' = Append(publishes, snapshot)
  /\ UNCHANGED <<clientVars, now, snapshot>>

PublisherNext ==
  \/ Tick
  \/ ComputeSnapshot
  \/ Publish

PublisherSpec == Init /\ [][PublisherNext]_vars

(***************************************************************************)
(* Properties.                                                             *)
(***************************************************************************)
\* Number of positions of s that hold row r.
Count(s, r) == Cardinality({i \in 1..Len(s) : s[i] = r})

\* A fetch has been applied and no later one has failed or is in flight.
FetchSettled == fetchPc = "idle" /\ error = nullString

\* C1: after a full fetch of rows with distinct symbols and whatever INSERT,
\* UPDATE and DELETE events have been handled since, the stock collection, read
\* as a mapping keyed by symbol, is the fetched rows with those events applied
\* one by one in delivery order (INSERT/UPDATE puts by symbol, DELETE removes
\* by symbol), one row per symbol.
C1_ReconciledMapping ==
  /\ AsMap(stocks) = expected
  /\ Len(stocks) = Cardinality({sym \in Symbols : expected[sym] # null})

\* A fetch was applied, then a row was replaced in place by an event and
\* another removed by a DELETE event.
C1_Witness ==
  /\ FetchSettled
  /\ \E i, j \in 1..Len(log) :
       /\ log[i].eventType = "UPDATE" /\ log[i].index >= 1
       /\ log[j].eventType = "DELETE" /\ log[j].index >= 1
  /\ stocks # <<>>

\* C2: once a fetch has completed and every event has been handled, with no
\* change lost to the feed since the fetch read the store, the local row of
\* every symbol is the store's row for it.
C2_RefreshSafe ==
  (FetchSettled /\ inbox = <<>> /\ missed = "no")
    => AsMap(stocks) = TableAsMap(tblStocks)

\* C3: screenedStocks holds exactly the rows of stocks whose passed_screen is
\* true, each as often as stocks holds it.
C3_ScreenedIsFilter ==
  \A r \in StockRows :
    Count(screenedStocks, r) = IF r.passed_screen THEN Count(stocks, r) ELSE 0

\* After a fetch and an event, stocks holds rows that passed and rows that did
\* not.
C3_Witness ==
  /\ FetchSettled
  /\ log # <<>>
  /\ Len(screenedStocks) >= 1
  /\ Len(screenedStocks) < Len(stocks)

\* C4: once a change of table stocks was made while the client was
\* disconnected, a fresh one-shot fetch follows: eventually a fetchStocks call
\* is about to read the store, or has read it since the change.
C4_GapClosedAfterRejoin ==
  (conn = "errored" /\ missed = "errored")
    ~> (fetchPc = "awaitStocks" \/ missed = "no")

\* s is in non-increasing order of the combined ranking value.
NonIncreasing(s) ==
  \A i \in 1..(Len(s) - 1) :
    getRecommendationScore(s[i]) >= getRecommendationScore(s[i + 1])

\* s is in descending order of the combined ranking value, rows of equal
\* value in lexical order of their symbol.
RankedThenSymbol(s) ==
  \A i \in 1..(Len(s) - 1) :
    \/ getRecommendationScore(s[i]) > getRecommendationScore(s[i + 1])
    \/ /\ getRecommendationScore(s[i]) = getRecommendationScore(s[i + 1])
       /\ symbolRank(s[i].symbol) < symbolRank(s[i + 1].symbol)

\* C5: the returned collections are in descending order of the combined
\* ranking value, rows of equal value in lexical order of their symbol.
C5_TotalOrder == RankedThenSymbol(returnedStocks) /\ RankedThenSymbol(screenedStocks)

\* C6: the store lists rows (the one-shot query's ORDER BY, the view
\* screened_stocks) in the order sortByRecommendation gives the same rows.
C6_SameOrder ==
  /\ screened_stocks = ArraySort(screened_stocks, sortByRecommendation)
  /\ fetchPc \in {"awaitStatus", "apply"}
       => stocksData = ArraySort(stocksData, sortByRecommendation)

\* C7: the returned stocks and screenedStocks are each in non-increasing order
\* of the combined ranking value, and every row in them is the latest row
\* known for its symbol.
C7_RankedOrder ==
  /\ NonIncreasing(returnedStocks)
  /\ NonIncreasing(screenedStocks)
  /\ \A i \in 1..Len(returnedStocks) :
       returnedStocks[i] = expected[returnedStocks[i].symbol]
  /\ \A i \in 1..Len(screenedStocks) :
       screenedStocks[i] = expected[screenedStocks[i].symbol]

\* An UPDATE event has been handled, and the ranking puts the rows of stocks
\* and of its passed_screen part in another order than stocks holds them in.
C7_Witness ==
  /\ log # <<>>
  /\ log[Len(log)].eventType = "UPDATE"
  /\ log[Len(log)].index >= 1
  /\ returnedStocks # stocks
  /\ Len(screenedStocks) >= 2
  /\ screenedStocks # SelectSeq(stocks, LAMBDA s : s.passed_screen)

\* after is before without the rows of symbol sym, the others in their order.
WithoutSymbol(before, after, sym) ==
  LET kept == {i \in 1..Len(before) : before[i].symbol # sym}
      nth(k) == CHOOSE i \in kept : Cardinality({j \in kept : j < i}) = k - 1
  IN  /\ Len(after) = Cardinality(kept)
      /\ \A k \in 1..Len(after) : after[k] = before[nth(k)]

\* The step handles the event at the head of inbox.
HandlesHead == inbox # <<>> /\ inbox' = Tail(inbox)

\* C8: handling a DELETE event for a symbol removes that symbol's row and
\* nothing else: the other rows keep their values and their relative order, in
\* stocks and in both returned collections, a symbol that is absent leaves
\* stocks as it was, and status, loading and error are untouched.
C8_DeleteFrame ==
  [][(HandlesHead /\ Head(inbox).table = "stocks"
                  /\ Head(inbox).eventType = "DELETE")
       => LET sym == Head(inbox).old.symbol
          IN  /\ WithoutSymbol(stocks, stocks', sym)
              /\ WithoutSymbol(returnedStocks, returnedStocks', sym)
              /\ WithoutSymbol(screenedStocks, screenedStocks', sym)
              /\ findIndex(stocks, sym) = 0 => stocks' = stocks
              /\ UNCHANGED <<marketStatus, loading, error>>]_vars

\* A DELETE event has removed a row that was not the last of three.
C8_Witness ==
  /\ log # <<>>
  /\ log[Len(log)].eventType = "DELETE"
  /\ log[Len(log)].index \in 1..2
  /\ Len(stocks) = 2

\* C9: handling a market_status event that carries a new record replaces the
\* client's status record by that record.
C9_StatusReplaced ==
  [][(HandlesHead /\ Head(inbox).table = "market_status"
                  /\ Head(inbox).new # null)
       => marketStatus' = Head(inbox).new]_vars

\* C10: table market_status holds exactly one row.
C10_ExactlyOneStatusRow == Cardinality(market_status) = 1

\* The step publishes the snapshot the scraper holds.
Publishes == publishes' = Append(publishes, snapshot)

\* C11: publishing is an idempotent upsert keyed by symbol.  After a publish
\* the table holds exactly one row for the snapshot's symbol, with the
\* snapshot's field values, and the rows of the other symbols are as they
\* were; publishing the snapshot that was published last leaves the row's
\* field values and created_at as they were; and no publish decreases the
\* updated_at of a row.
C11_IdempotentUpsert ==
  [][Publishes =>
       LET sym == snapshot.symbol
           before == {r \in publishedStocks : r.symbol = sym}
           after == {r \in publishedStocks' : r.symbol = sym}
       IN  /\ Cardinality(after) = 1
           /\ \A r \in after : Fields(r) = Fields(snapshot)
           /\ {r \in publishedStocks' : r.symbol # sym}
                = {r \in publishedStocks : r.symbol # sym}
           /\ (publishes # <<>> /\ publishes[Len(publishes)] = snapshot)
                => /\ Cardinality(before) = 1
                   /\ \A r \in before : \A q \in after :
                        Fields(q) = Fields(r) /\ q.created_at = r.created_at
           /\ \A r \in before : \A q \in after : q.updated_at >= r.updated_at]_vars

\* The same snapshot was published twice in a row, the second time later than
\* the first, next to the row of another symbol.
C11_Witness ==
  /\ Len(publishes) >= 3
  /\ publishes[Len(publishes)] = publishes[Len(publishes) - 1]
  /\ Cardinality(publishedStocks) = 2
  /\ \E r \in publishedStocks :
       /\ r.symbol = publishes[Len(publishes)].symbol
       /\ r.updated_at > r.created_at

\* C12: the score of a screened snapshot is the sum of 20 for a price in
\* 100..10000, 25 for a volume over 1,000,000, 20 for a volatility over 2%,
\* 15 for a change_percent over 0.5% and 20 for a spread under 2%; it lies in
\* 0..100; passed_screen is true exactly when all five hold; and a snapshot of
\* price 0 or volume 0 has not passed.
C12_ScoreIsSumOfWeights ==
  snapshot # null =>
    LET price == snapshot.price >= 100 /\ snapshot.price <= 10000
        volume == snapshot.volume > 1000000
        volatility == snapshot.volatility > 200
        change == snapshot.change_percent > 50
        spread == snapshot.spread < 200
    IN  /\ snapshot.score = (IF price THEN 20 ELSE 0) + (IF volume THEN 25 ELSE 0)
                            + (IF volatility THEN 20 ELSE 0)
                            + (IF change THEN 15 ELSE 0)
                            + (IF spread THEN 20 ELSE 0)
        /\ snapshot.score >= 0 /\ snapshot.score <= 100
        /\ snapshot.passed_screen
             <=> (price /\ volume /\ volatility /\ change /\ spread)
        /\ snapshot.passed_screen <=> snapshot.score = 100
        /\ (snapshot.price = 0 \/ snapshot.volume = 0) => ~snapshot.passed_screen

\* A snapshot with every input just inside its threshold but the volume,
\* which is exactly 1,000,000, has been screened: score 75, not passed.
C12_Witness ==
  /\ snapshot # null
  /\ snapshot.price = 10000
  /\ snapshot.volume = 1000000
  /\ snapshot.volatility = 201
  /\ snapshot.change_percent = 51
  /\ snapshot.spread = 199
  /\ snapshot.score = 75
  /\ ~snapshot.passed_screen

\* C13: no two rows of the local collection have the same symbol.
C13_DistinctSymbols ==
  \A i, j \in 1..Len(stocks) : i # j => stocks[i].symbol # stocks[j].symbol

\* An INSERT event for a symbol already in the collection has been handled,
\* next to another row.
C13_Witness ==
  /\ Len(stocks) >= 2
  /\ \E i \in 1..Len(log) : log[i].eventType = "INSERT" /\ log[i].index >= 1

\* C14: whenever the market status the hook returns changes, it changes to a
\* complete record of table market_status: never to a mix of fields, and a
\* record held is never dropped for nothing.
C14_OldOrCompleteNew ==
  [][marketStatus' # marketStatus
       => marketStatus' \in StatusRows /\ single_row(marketStatus')]_vars

\* The step is the failure of the stocks query of the fetch in flight, or the
\* catch and finally blocks that follow it.
StocksQueryFails ==
  \/ fetchPc = "awaitStocks" /\ fetchPc' = "stocksFailed"
  \/ fetchPc = "stocksFailed" /\ fetchPc' = "idle"

\* C15: a failing stocks query leaves the collection and the market status
\* as they were, ends with error set and loading false; events handled while
\* error is set are applied to the collection; and a fetch that starts resets
\* error to null.
C15_FailedFetchFrame ==
  [][/\ StocksQueryFails => UNCHANGED <<stocks, marketStatus>>
     /\ (fetchPc = "stocksFailed" /\ fetchPc' = "idle")
          => error' # nullString /\ loading' = FALSE
     /\ (HandlesHead /\ Head(inbox).table = "stocks" /\ error # nullString)
          => IF Head(inbox).eventType = "DELETE"
             THEN AsMap(stocks')[Head(inbox).old.symbol] = null
             ELSE AsMap(stocks')[Head(inbox).new.symbol] = Head(inbox).new
     /\ (fetchPc = "idle" /\ fetchPc' # "idle")
          => error' = nullString /\ fetchPc' = "awaitStocks"]_vars

\* A refresh failed on its stocks query with the collection and the status
\* populated, which are still held, and an event handled after the failure
\* replaced a row.
C15_Witness ==
  /\ fetchPc = "idle"
  /\ error # nullString
  /\ ~loading
  /\ marketStatus # null
  /\ Len(stocks) >= 2
  /\ log # <<>>
  /\ log[Len(log)].error # nullString
  /\ log[Len(log)].index >= 1

\* C16: a fetch starts only while loading is false and no fetch is in flight,
\* loading is true exactly while a fetch is in flight, and every fetch in
\* flight eventually sets loading back to false.
C16_OneFetchInFlight ==
  /\ [](loading <=> fetchPc # "idle")
  /\ [][(fetchPc' = "awaitStocks" /\ fetchPc # "awaitStocks")
          => (~loading /\ fetchPc = "idle")]_vars
  /\ (loading ~> ~loading)

\* After a fetch that succeeded (the collection is populated and no event has
\* been handled since), a refresh was started and has failed: loading is false
\* again.
C16_Witness ==
  /\ ~loading
  /\ fetchPc = "idle"
  /\ error # nullString
  /\ stocks # <<>>
  /\ log = <<>>

====
